---- MODULE Spec2Model ----
(***************************************************************************)
(* FAIR-workflow-platform argo connector.                                  *)
(*                                                                         *)
(*   app/cordra.py  create_dataset_from_workflow_artifacts  (Spec)         *)
(*   app/argo.py    get_artifact_list                       (SpecFilter)   *)
(*   app/argo.py    _recursive_artifact_reader              (SpecStream)   *)
(*   app/argo.py    reconstruct_workflow                    (SpecReconstruct) *)
(*   the assembly loop fed by the artifact reader           (SpecIngest)   *)
(*   app/argo.py    artifact_reader, one triple             (SpecPaths)    *)
(*   overlapping runs against one repository                (SpecRuns)     *)
(*                                                                         *)
(* Strings that the code inspects (paths, hrefs, storage keys) are         *)
(* sequences of tokens, so that joins, prefix and substring tests are      *)
(* computed.  Remote collaborators (the Cordra repository, the Argo        *)
(* artifact server) answer nondeterministically: every call may succeed or *)
(* raise.                                                                  *)
(***************************************************************************)
EXTENDS Integers, Sequences, FiniteSets, TLC

VARIABLES
    \* ---- create_dataset_from_workflow_artifacts (cordra.py) ----
    pc,           \* position of the assembly run
    created_ids,  \* the creation ledger: sequence of [id, type] (an ordered dict)
    repo,         \* the repository: identifier -> stored record
    calls,        \* every repository call issued, in order
    loc,          \* the run's local variables
    updates,      \* the back-patch update last issued: <<[id, read, written, ok]>>
    \* ---- get_artifact_list (argo.py) ----
    wfl,          \* the status response handed to the filter
    fpc,          \* "call" before, "done" after get_artifact_list
    fres,         \* its outcome: [raised, list]
    \* ---- _recursive_artifact_reader (argo.py) ----
    server,       \* the artifact server's directory tree
    spc,          \* position of the generator chain
    stack,        \* one frame per active _recursive_artifact_reader generator
    conns,        \* connections currently open: set of [url, kind]
    reqs,         \* every HTTP GET issued, in order: [url, kind, probeOpen]
    yielded,      \* the pairs handed to the consumer: [path, url]
    \* ---- reconstruct_workflow (argo.py) ----
    reported,     \* the status response as the engine reported it
    response,     \* the status response object, as it is now
    rpc,          \* "call" before, "done" after reconstruct_workflow
    rdoc,         \* its outcome: [raised, doc]
    \* ---- local files of one ingestion run (cordra.py, lines 58-100) ----
    open_files,   \* [tmp, rb]: temporary files and read handles now open
    \* ---- several ingestion runs against one repository (main.py) ----
    runs,         \* per run: its position, its ledger, its loop index
    store         \* the repository they share: [by, alive]

asmVars == <<pc, created_ids, repo, calls, loc, updates>>
fltVars == <<wfl, fpc, fres>>
strVars == <<server, spc, stack, conns, reqs, yielded>>
recVars == <<reported, response, rpc, rdoc>>
runVars == <<runs, store>>
singleVars == <<asmVars, fltVars, strVars, recVars, open_files>>
vars == <<pc, created_ids, repo, calls, loc, updates, wfl, fpc, fres,
          server, spc, stack, conns, reqs, yielded,
          reported, response, rpc, rdoc, open_files, runs, store>>

(***************************************************************************)
(* Bounds of the model.                                                    *)
(***************************************************************************)
MaxPersons == 2
MaxFiles == 3
MaxParams == 1

\* nodes of a status response and artifacts in it
MaxNodes == 2
MaxArtifacts == 2

\* file_max_size, the size limit handed to the assembly (default 100 MiB);
\* sizes are counted in units such that the limit is 2.
FileMaxSize == 2
FileSizes == {FileMaxSize, FileMaxSize + 1}

None == 0

(***************************************************************************)
(* The repository collaborator (cordra.CordraObject).                      *)
(***************************************************************************)
\* "partOf" of a stored object: key absent, JSON null, or a list of ids.
Absent == [kind |-> "absent", ids |-> <<>>]
Null == [kind |-> "null", ids |-> <<>>]
ListOf(ids) == [kind |-> "list", ids |-> ids]

\* Identifier 0 stands for a record outside this run (a foreign Dataset).
PartOfValues == {Absent, Null, ListOf(<<0>>)}

NextId == Len(SelectSeq(calls, LAMBDA c : c.op = "create" /\ c.ok)) + 1

Call(op, type, id, ok) == [op |-> op, type |-> type, id |-> id, ok |-> ok]

\* The stored object: its type, the obj_json of the create call (json), and
\* the fields the run reads back; contentSize is None for the types that
\* carry no content.
NewRecord(type, size, obj_json) ==
    [type |-> type, contentSize |-> size, json |-> obj_json,
     partOf |-> Absent, resultOf |-> None]

\* created_ids[key] = value on an insertion-ordered dict
DictSet(d, key, value) ==
    IF \E i \in 1..Len(d) : d[i].id = key
    THEN [i \in 1..Len(d) |-> IF d[i].id = key THEN [id |-> key, type |-> value] ELSE d[i]]
    ELSE Append(d, [id |-> key, type |-> value])

\* [id for id in created_ids if created_ids[id] == type]
IdsOfType(d, type) ==
    LET sel == SelectSeq(d, LAMBDA e : e.type = type)
    IN  [i \in 1..Len(sel) |-> sel[i].id]

\* CreateOk without the ledger entry of line 177
CreateOk_Mutant(type, size, obj_json) ==
    /\ repo' = [i \in DOMAIN repo \cup {NextId} |->
                   IF i = NextId THEN NewRecord(type, size, obj_json) ELSE repo[i]]
    /\ calls' = Append(calls, Call("create", type, NextId, TRUE))
    /\ created_ids' = IF type = "CreateAction" THEN created_ids
                      ELSE DictSet(created_ids, NextId, type)

\* cordra.CordraObject.create succeeded: the record exists under a fresh
\* identifier and the ledger entry is written right after the call.
CreateOk(type, size, obj_json) ==
    /\ repo' = [i \in DOMAIN repo \cup {NextId} |->
                   IF i = NextId THEN NewRecord(type, size, obj_json) ELSE repo[i]]
    /\ calls' = Append(calls, Call("create", type, NextId, TRUE))
    /\ created_ids' = DictSet(created_ids, NextId, type)

\* cordra.CordraObject.create raised: nothing was stored.
CreateFails(type) ==
    /\ calls' = Append(calls, Call("create", type, None, FALSE))
    /\ UNCHANGED <<repo, created_ids>>

\* An exception reaches the handler of line 236; l holds the local variables.
RaiseWith(e, l) ==
    /\ pc' = "rollback"
    /\ loc' = [l EXCEPT !.err = e, !.k = 1]

Raise(e) == RaiseWith(e, loc)

(***************************************************************************)
(* reconstruct_workflow (argo.py, lines 38-50)                             *)
(*                                                                         *)
(* A mapping is a function from the set of its keys.  The status response  *)
(* is [spec, stored], each an optional key: wfl["spec"] and                *)
(* wfl["status"]["storedWorkflowTemplateSpec"].                            *)
(***************************************************************************)
SpecKeys == {"entrypoint", "arguments", "templates", "workflowTemplateRef"}
TemplateRef == "workflowTemplateRef"

\* the mappings over some of the keys, every value v
Dicts(v) == UNION {[K -> {v}] : K \in SUBSET SpecKeys}

\* the status responses of the model: the values of the invocation spec are
\* "w", those of the stored template "t"
StatusResponses ==
    [spec : {<<>>} \cup {<<d>> : d \in Dicts("w")},
     stored : {<<>>} \cup {<<d>> : d \in Dicts("t")}]

\* lines 45-46: for key in templateSpec: spec[key] = templateSpec[key]
Merge(spec, templateSpec) ==
    [k \in DOMAIN spec \cup DOMAIN templateSpec |->
        IF k \in DOMAIN templateSpec THEN templateSpec[k] ELSE spec[k]]

\* del d[key]
DictDel(d, key) == [k \in DOMAIN d \ {key} |-> d[k]]

\* lines 38-50.  workflow_reconstructed["spec"] is the very object
\* wfl["spec"], so the assignments of line 46 and the del of line 49 are
\* made on the status response; "wfl" is the response as the call leaves it.
reconstruct_workflow(w) ==
    IF w.spec = <<>> \/ w.stored = <<>>
    THEN \* line 42 or line 44: KeyError
         [raised |-> TRUE, doc |-> <<>>, wfl |-> w]
    ELSE LET merged == Merge(w.spec[1], w.stored[1]) IN
         IF TemplateRef \notin DOMAIN merged
         THEN \* line 49: KeyError
              [raised |-> TRUE, doc |-> <<>>,
               wfl |-> [w EXCEPT !.spec = <<merged>>]]
         ELSE LET spec == DictDel(merged, TemplateRef) IN
              [raised |-> FALSE,
               doc |-> <<[kind |-> "Workflow", spec |-> spec]>>,
               wfl |-> [w EXCEPT !.spec = <<spec>>]]

\* The keys of a workflow document, as far as the assembly looks:
\* its own and those of its "metadata".
DocShape(doc) ==
    [keys |-> DOMAIN doc,
     metadata |-> IF "metadata" \in DOMAIN doc THEN DOMAIN doc.metadata ELSE {}]

\* the documents reconstruct_workflow returns
ReconstructedDocuments ==
    {reconstruct_workflow(w).doc[1] :
        w \in {x \in StatusResponses : ~reconstruct_workflow(x).raised}}

\* The documents handed to the assembly as reconstructed_wfl: those
\* reconstruct_workflow returns, and documents that carry a "metadata"
\* mapping, with and without "annotations".
WorkflowDocuments ==
    {DocShape(d) : d \in ReconstructedDocuments}
    \cup {[keys |-> {"kind", "spec", "metadata"}, metadata |-> {"name"}],
          [keys |-> {"kind", "spec", "metadata"}, metadata |-> {"name", "annotations"}]}

(***************************************************************************)
(* create_dataset_from_workflow_artifacts                                  *)
(***************************************************************************)
\* Timestamps are counted in seconds, which is the resolution of date_format,
\* so that strptime and strftime are inverse on them; Unparsable is a string
\* that does not match date_format.
Unparsable == -1
Timestamps == {1, 3}
StartedAt == 1

\* What the run has read of wfl["status"]: "finishedAt" (None when the key
\* is absent or null) and, when the loop of line 156 runs, the "finishedAt"
\* of the nodes in their order.  The timestamps are in view from line 151 to
\* the create call of line 172.
NoTimes == [finishedAt |-> None, nodes |-> <<>>]

\* What the run has read of wfl["metadata"] for the Dataset properties: the
\* name's "modgp-" prefix and the license and keywords annotations (<<>>
\* when absent).  In view from line 179 to the create call of line 221.
NoMetadata == [modgp |-> FALSE, license |-> <<>>, keywords |-> <<>>]

NoProperties ==
    [author |-> <<>>, hasPart |-> <<>>, mentions |-> <<>>, mainEntity |-> None,
     license |-> <<>>, keywords |-> <<>>]

AsmInit ==
    /\ pc = "start"
    /\ created_ids = <<>>
    /\ repo = <<>>
    /\ calls = <<>>
    /\ updates = <<>>
    /\ \E doc \in WorkflowDocuments :
       loc = [reconstructed_wfl |-> doc,
              create_action_author |-> None, wfl_obj |-> None, action |-> None,
              dataset |-> None, seen |-> {}, nFiles |-> 0, sizes |-> <<>>,
              nParams |-> 0,
              file_size |-> 0, k |-> 0,
              obj |-> NewRecord("FileObject", None, [contentUrl |-> 0]),
              times |-> NoTimes, end_time |-> None,
              metadata |-> NoMetadata, properties |-> NoProperties,
              err |-> "none", result |-> None]

\* line 34: annotations = reconstructed_wfl["metadata"]["annotations"]
ReadAnnotations ==
    /\ pc = "start"
    /\ IF /\ "metadata" \in loc.reconstructed_wfl.keys
          /\ "annotations" \in loc.reconstructed_wfl.metadata
       THEN pc' = "persons" /\ UNCHANGED loc
       ELSE Raise("KeyError")
    /\ UNCHANGED <<created_ids, repo, calls, updates>>

\* lines 45-46: if number == "1": create_action_author = author
Author(number, create_action_author, author) ==
    IF number = 1 THEN author ELSE create_action_author

\* lines 36-47, one iteration for a key "argo-connector/submitterId<number>".
\* The keys come in the order of the mapping: number 1 at any place; the
\* other numbers, which the code does not tell apart, lowest first.
CreatePerson ==
    /\ pc = "persons"
    /\ Cardinality(loc.seen) < MaxPersons
    /\ \E number \in (1..MaxPersons) \ loc.seen :
       \E inWfl \in BOOLEAN, ok \in BOOLEAN :
          /\ number = 1 \/ \A m \in 2..(number - 1) : m \in loc.seen
          /\ IF ~inWfl
             THEN \* line 40: wfl["metadata"]["annotations"][...] is missing
                  /\ Raise("KeyError")
                  /\ UNCHANGED <<created_ids, repo, calls>>
             ELSE IF ~ok
             THEN /\ CreateFails("Person")
                  /\ Raise("RepositoryError")
             ELSE /\ CreateOk("Person", None, [identifier |-> number])
                  /\ pc' = "persons"
                  /\ loc' = [loc EXCEPT
                        !.seen = @ \cup {number},
                        !.create_action_author = Author(number, @, NextId)]
    /\ UNCHANGED updates

\* the loop of line 36 is exhausted
PersonsDone ==
    /\ pc = "persons"
    /\ pc' = "files"
    /\ UNCHANGED <<created_ids, repo, calls, loc, updates>>

\* line 51: the next pair of artifact_stream_iterator
StreamNext ==
    /\ pc = "files"
    /\ \E what \in {"pair", "end", "error"} :
          CASE what = "pair" ->
                  /\ loc.nFiles < MaxFiles
                  /\ pc' = "download"
                  /\ loc' = [loc EXCEPT !.nFiles = @ + 1]
            [] what = "end" ->
                  /\ pc' = "params"
                  /\ UNCHANGED loc
            [] what = "error" ->
                  Raise("TransportError")
    /\ UNCHANGED <<created_ids, repo, calls, updates>>

\* lines 58-70: the content is written to the temporary file and measured
Download ==
    /\ pc = "download"
    /\ \E ok \in BOOLEAN, size \in FileSizes :
          IF ok
          THEN /\ pc' = "sizecheck"
               /\ loc' = [loc EXCEPT !.file_size = size,
                                      !.sizes = Append(@, size)]
          ELSE \* lines 65-68: content_iterator.close(); raise e
               Raise("TransportError")
    /\ UNCHANGED <<created_ids, repo, calls, updates>>

\* TooLarge with >= in place of >
TooLarge_Mutant(file_size) == file_size >= FileMaxSize
\* line 75: file_size > file_max_size
TooLarge(file_size) == file_size > FileMaxSize

\* lines 75-77: an oversize file is skipped (continue)
SizeCheck ==
    /\ pc = "sizecheck"
    /\ pc' = IF TooLarge(loc.file_size) THEN "files" ELSE "upload"
    /\ UNCHANGED <<created_ids, repo, calls, loc, updates>>

\* lines 80-101: classify (a MagicException is absorbed and leaves
\* encodingFormat None), create the FileObject, enter it in the ledger
CreateFileObject ==
    /\ pc = "upload"
    /\ \E classified \in BOOLEAN, ok \in BOOLEAN :
          IF ok
          THEN /\ CreateOk("FileObject", loc.file_size, [contentUrl |-> loc.nFiles])
               /\ pc' = "files"
               /\ UNCHANGED loc
          ELSE /\ CreateFails("FileObject")
               /\ Raise("RepositoryError")
    /\ UNCHANGED updates

\* lines 104-124, one iteration: a FormalParameter and, when the parameter
\* carries a value, a PropertyValue
CreateParameter ==
    /\ pc = "params"
    /\ loc.nParams < MaxParams
    /\ \E named \in BOOLEAN, ok \in BOOLEAN :
          IF ~named
          THEN \* line 107: parameter["name"] is missing
               /\ Raise("KeyError")
               /\ UNCHANGED <<created_ids, repo, calls>>
          ELSE IF ~ok
          THEN /\ CreateFails("FormalParameter")
               /\ Raise("RepositoryError")
          ELSE /\ CreateOk("FormalParameter", None, [name |-> loc.nParams + 1])
               /\ \E hasValue \in BOOLEAN :
                     /\ pc' = IF hasValue THEN "value" ELSE "params"
                     /\ loc' = [loc EXCEPT !.nParams = @ + 1]
    /\ UNCHANGED updates

\* lines 117-124: "value" in parameter
CreatePropertyValue ==
    /\ pc = "value"
    /\ \E ok \in BOOLEAN :
          IF ok
          THEN /\ CreateOk("PropertyValue", None, [name |-> loc.nParams])
               /\ pc' = "params"
               /\ UNCHANGED loc
          ELSE /\ CreateFails("PropertyValue")
               /\ Raise("RepositoryError")
    /\ UNCHANGED updates

\* lines 126-146: the reconstructed workflow is dumped and stored
CreateWorkflow ==
    /\ pc = "params"
    /\ \E ok \in BOOLEAN :
          IF ok
          THEN /\ CreateOk("Workflow", 1,
                           [input |-> IdsOfType(created_ids, "FormalParameter")])
               /\ pc' = "times"
               /\ loc' = [loc EXCEPT !.wfl_obj = NextId]
          ELSE /\ CreateFails("Workflow")
               /\ Raise("RepositoryError")
    /\ UNCHANGED updates

\* EndTime with the earliest node in place of the latest
RECURSIVE LatestOf_Mutant(_, _)
LatestOf_Mutant(nodes, end_time) ==
    IF nodes = <<>> THEN [error |-> "none", end_time |-> end_time]
    ELSE LET node_end_time == Head(nodes) IN
         IF node_end_time = None THEN LatestOf_Mutant(Tail(nodes), end_time)
         ELSE IF node_end_time = Unparsable
         THEN [error |-> "ValueError", end_time |-> None]
         ELSE LatestOf_Mutant(Tail(nodes),
                       IF end_time = None \/ node_end_time < end_time
                       THEN node_end_time ELSE end_time)

\* lines 156-161: the loop over the nodes' "finishedAt"
RECURSIVE LatestOf(_, _)
LatestOf(nodes, end_time) ==
    IF nodes = <<>> THEN [error |-> "none", end_time |-> end_time]
    ELSE LET node_end_time == Head(nodes) IN
         IF node_end_time = None THEN LatestOf(Tail(nodes), end_time)
         ELSE IF node_end_time = Unparsable
         THEN [error |-> "ValueError", end_time |-> None]
         ELSE LatestOf(Tail(nodes),
                       IF end_time = None \/ node_end_time > end_time
                       THEN node_end_time ELSE end_time)

\* lines 152-166: the end time, or the exception raised on the way;
\* end_time.strftime on None is an AttributeError
EndTime(finishedAt, nodes) ==
    LET r == IF finishedAt # None
             THEN IF finishedAt = Unparsable
                  THEN [error |-> "ValueError", end_time |-> None]
                  ELSE [error |-> "none", end_time |-> finishedAt]
             ELSE LatestOf(nodes, None)
    IN  IF r.error = "none" /\ r.end_time = None
        THEN [error |-> "AttributeError", end_time |-> None]
        ELSE r

\* the "finishedAt" values of wfl["status"]["nodes"], in the order of the mapping
NodeTimes ==
    UNION {[1..n -> {None, Unparsable} \cup Timestamps] : n \in 0..MaxNodes}

\* lines 151-166: the timestamps are read from wfl["status"] and the end
\* time is computed; a missing "startedAt" is a KeyError, an unparsable one
\* a ValueError; the nodes are looked at only when the workflow has no
\* "finishedAt"
ComputeTimes ==
    /\ pc = "times"
    /\ \E startedAt \in {None, Unparsable, StartedAt} :
          CASE startedAt = None -> Raise("KeyError")
            [] startedAt = Unparsable -> Raise("ValueError")
            [] OTHER ->
                 \E finishedAt \in {None, Unparsable} \cup Timestamps :
                 \E nodes \in (IF finishedAt = None THEN NodeTimes ELSE {<<>>}) :
                    LET r == EndTime(finishedAt, nodes) IN
                    IF r.error = "none"
                    THEN /\ pc' = "action"
                         /\ loc' = [loc EXCEPT
                               !.times = [finishedAt |-> finishedAt, nodes |-> nodes],
                               !.end_time = r.end_time]
                    ELSE Raise(r.error)
    /\ UNCHANGED <<created_ids, repo, calls, updates>>

\* ActionProperties with every ledger entry as a result
ActionProperties_Mutant(ledger, wfl_obj, author, end_time) ==
    [result |-> [i \in 1..Len(ledger) |-> ledger[i].id],
     startTime |-> StartedAt,
     endTime |-> end_time,
     instrument |-> wfl_obj,
     object |-> IdsOfType(ledger, "PropertyValue"),
     agent |-> IF author # None THEN <<author>> ELSE <<>>]

\* lines 163-171: action_properties; "agent" is an optional key
ActionProperties(ledger, wfl_obj, author, end_time) ==
    [result |-> IdsOfType(ledger, "FileObject"),
     startTime |-> StartedAt,
     endTime |-> end_time,
     instrument |-> wfl_obj,
     object |-> IdsOfType(ledger, "PropertyValue"),
     agent |-> IF author # None THEN <<author>> ELSE <<>>]

\* lines 163-177
CreateAction ==
    /\ pc = "action"
    /\ LET sent == [loc EXCEPT !.times = NoTimes] IN
       \E ok \in BOOLEAN :
          IF ok
          THEN /\ CreateOk("CreateAction", None,
                           ActionProperties(created_ids, loc.wfl_obj,
                                            loc.create_action_author, loc.end_time))
               /\ pc' = "properties"
               /\ loc' = [sent EXCEPT !.action = NextId]
          ELSE /\ CreateFails("CreateAction")
               /\ RaiseWith("RepositoryError", sent)
    /\ UNCHANGED updates

\* the values of dataset_patch, lines 215-216
ModgpKeywords == <<"GBIF", "Occurrence", "Biodiversity", "Observation", "ModGP", "SDM">>
ModgpLicense == "https://spdx.org/licenses/CC-BY-SA-2.0"

\* the values a submission puts under "argo-connector/license" and
\* "argo-connector/keywords" (main.py, lines 217-220)
LicenseAnnotation == "https://spdx.org/licenses/MIT"
KeywordsAnnotation == <<"sdm", ",", ",", "gbif">>

\* lines 179-186 and 212-218: the Dataset properties ("name" and
\* "description" left aside); the ledger entries are put in hasPart in
\* ledger order; json_merge_patch.merge adds the hardcoded keywords and
\* license of a modgp workflow
DatasetProps(ledger, action, wfl_obj, modgp) ==
    [author |-> IdsOfType(ledger, "Person"),
     hasPart |-> LET sel == SelectSeq(ledger,
                               LAMBDA e : e.type = "FileObject" \/ e.type = "Workflow")
                 IN  [i \in 1..Len(sel) |-> sel[i].id],
     mentions |-> <<action>>,
     mainEntity |-> wfl_obj,
     license |-> IF modgp THEN <<ModgpLicense>> ELSE <<>>,
     keywords |-> IF modgp THEN <<ModgpKeywords>> ELSE <<>>]

\* lines 179-218: wfl["metadata"] is read; a missing "name" is a KeyError
\* (line 180), a modgp workflow without a "species" parameter raises at
\* line 211; no line reads the license or the keywords annotation
DatasetProperties ==
    /\ pc = "properties"
    /\ \E named \in BOOLEAN, modgp \in BOOLEAN, species \in BOOLEAN :
       \E license \in {<<>>, <<LicenseAnnotation>>} :
       \E keywords \in {<<>>, <<KeywordsAnnotation>>} :
          IF ~named THEN Raise("KeyError")
          ELSE IF modgp /\ ~species THEN Raise("StopIteration")
          ELSE /\ pc' = "dataset"
               /\ loc' = [loc EXCEPT
                     !.metadata = [modgp |-> modgp, license |-> license,
                                   keywords |-> keywords],
                     !.properties = DatasetProps(created_ids, loc.action,
                                                 loc.wfl_obj, modgp)]
    /\ UNCHANGED <<created_ids, repo, calls, updates>>

\* lines 221-222
CreateDataset ==
    /\ pc = "dataset"
    /\ LET sent == [loc EXCEPT !.metadata = NoMetadata] IN
       \E ok \in BOOLEAN :
          IF ok
          THEN /\ CreateOk("Dataset", None, loc.properties)
               /\ pc' = "backpatch"
               /\ loc' = [sent EXCEPT !.dataset = NextId, !.k = 1]
          ELSE /\ CreateFails("Dataset")
               /\ RaiseWith("RepositoryError", sent)
    /\ UNCHANGED updates

\* the FileObject identifiers the loop of line 226 iterates over
BackpatchIds == IdsOfType(created_ids, "FileObject")

\* line 227: obj = cordra.CordraObject.read(obj_id=cordra_id); the stored
\* partOf is whatever the repository holds for the object by now
ReadBack ==
    /\ pc = "backpatch"
    /\ loc.k <= Len(BackpatchIds)
    /\ LET id == BackpatchIds[loc.k] IN
       \E ok \in BOOLEAN, held \in PartOfValues :
          IF ok
          THEN /\ repo' = [repo EXCEPT ![id].partOf = held]
               /\ calls' = Append(calls, Call("read", "FileObject", id, TRUE))
               /\ pc' = "update"
               /\ loc' = [loc EXCEPT !.obj = repo'[id]]
          ELSE /\ calls' = Append(calls, Call("read", "FileObject", id, FALSE))
               /\ Raise("RepositoryError")
               /\ UNCHANGED repo
    /\ UNCHANGED <<created_ids, updates>>

\* Patched without the test of line 228
Patched_Mutant(obj, dataset, action) ==
    [obj EXCEPT !.partOf = ListOf(<<dataset>>),
                !.resultOf = IF action # None THEN action ELSE @]
\* lines 228-231: the object as written back
Patched(obj, dataset, action) ==
    [obj EXCEPT !.partOf = IF obj.partOf.kind = "absent" \/ obj.partOf = Null
                           THEN ListOf(<<dataset>>) ELSE @,
                !.resultOf = IF action # None THEN action ELSE @]

\* lines 228-232: cordra.CordraObject.update(obj_id=cordra_id, obj_json=obj)
UpdateBack ==
    /\ pc = "update"
    /\ LET id == BackpatchIds[loc.k]
           new == Patched(loc.obj, loc.dataset, loc.action) IN
       \E ok \in BOOLEAN :
          /\ updates' = <<[id |-> id, read |-> loc.obj, written |-> new, ok |-> ok]>>
          /\ calls' = Append(calls, Call("update", "FileObject", id, ok))
          /\ IF ok
             THEN /\ repo' = [repo EXCEPT ![id] = new]
                  /\ pc' = "backpatch"
                  /\ loc' = [loc EXCEPT !.k = @ + 1]
             ELSE /\ Raise("RepositoryError")
                  /\ UNCHANGED repo
    /\ UNCHANGED created_ids

\* Return handing back action["@id"]
Return_Mutant ==
    /\ pc = "backpatch"
    /\ loc.k > Len(BackpatchIds)
    /\ pc' = "returned"
    /\ loc' = [loc EXCEPT !.result = loc.action]
    /\ UNCHANGED <<created_ids, repo, calls, updates>>

\* line 235: return dataset["@id"]
Return ==
    /\ pc = "backpatch"
    /\ loc.k > Len(BackpatchIds)
    /\ pc' = "returned"
    /\ loc' = [loc EXCEPT !.result = loc.dataset]
    /\ UNCHANGED <<created_ids, repo, calls, updates>>

\* lines 238-239, one iteration: cordra.CordraObject.delete(obj_id=cordra_id).
\* A delete that raises leaves the handler: the loop is not resumed.
Delete ==
    /\ pc = "rollback"
    /\ loc.k <= Len(created_ids)
    /\ LET id == created_ids[loc.k].id
           type == created_ids[loc.k].type IN
       \E ok \in BOOLEAN :
          /\ calls' = Append(calls, Call("delete", type, id, ok))
          /\ IF ok
             THEN /\ repo' = [i \in DOMAIN repo \ {id} |-> repo[i]]
                  /\ pc' = "rollback"
                  /\ loc' = [loc EXCEPT !.k = @ + 1]
             ELSE /\ pc' = "raised"
                  /\ loc' = [loc EXCEPT !.err = "DeleteError"]
                  /\ UNCHANGED repo
    /\ UNCHANGED <<created_ids, updates>>

\* line 240: raise e
Reraise ==
    /\ pc = "rollback"
    /\ loc.k > Len(created_ids)
    /\ pc' = "raised"
    /\ UNCHANGED <<created_ids, repo, calls, loc, updates>>

FilterIdle == wfl = <<>> /\ fpc = "idle" /\ fres = <<>>
StreamIdle ==
    /\ server = <<>> /\ spc = "idle" /\ stack = <<>>
    /\ conns = {} /\ reqs = <<>> /\ yielded = <<>>

ReconIdle ==
    /\ reported = <<>> /\ response = <<>> /\ rpc = "idle" /\ rdoc = <<>>
FilesIdle == open_files = [tmp |-> 0, rb |-> 0]
RunsIdle == runs = <<>> /\ store = <<>>

Init == AsmInit /\ FilterIdle /\ StreamIdle /\ ReconIdle /\ FilesIdle /\ RunsIdle

Next ==
    \/ ReadAnnotations /\ UNCHANGED <<fltVars, strVars, recVars, open_files, runVars>>
    \/ CreatePerson /\ UNCHANGED <<fltVars, strVars, recVars, open_files, runVars>>
    \/ PersonsDone /\ UNCHANGED <<fltVars, strVars, recVars, open_files, runVars>>
    \/ StreamNext /\ UNCHANGED <<fltVars, strVars, recVars, open_files, runVars>>
    \/ Download /\ UNCHANGED <<fltVars, strVars, recVars, open_files, runVars>>
    \/ SizeCheck /\ UNCHANGED <<fltVars, strVars, recVars, open_files, runVars>>
    \/ CreateFileObject /\ UNCHANGED <<fltVars, strVars, recVars, open_files, runVars>>
    \/ CreateParameter /\ UNCHANGED <<fltVars, strVars, recVars, open_files, runVars>>
    \/ CreatePropertyValue /\ UNCHANGED <<fltVars, strVars, recVars, open_files, runVars>>
    \/ CreateWorkflow /\ UNCHANGED <<fltVars, strVars, recVars, open_files, runVars>>
    \/ ComputeTimes /\ UNCHANGED <<fltVars, strVars, recVars, open_files, runVars>>
    \/ CreateAction /\ UNCHANGED <<fltVars, strVars, recVars, open_files, runVars>>
    \/ DatasetProperties /\ UNCHANGED <<fltVars, strVars, recVars, open_files, runVars>>
    \/ CreateDataset /\ UNCHANGED <<fltVars, strVars, recVars, open_files, runVars>>
    \/ ReadBack /\ UNCHANGED <<fltVars, strVars, recVars, open_files, runVars>>
    \/ UpdateBack /\ UNCHANGED <<fltVars, strVars, recVars, open_files, runVars>>
    \/ Return /\ UNCHANGED <<fltVars, strVars, recVars, open_files, runVars>>
    \/ Delete /\ UNCHANGED <<fltVars, strVars, recVars, open_files, runVars>>
    \/ Reraise /\ UNCHANGED <<fltVars, strVars, recVars, open_files, runVars>>

Spec == Init /\ [][Next]_vars

(***************************************************************************)
(* get_artifact_list (argo.py, lines 53-85)                                *)
(*                                                                         *)
(* An optional key of a mapping is a sequence of length at most one:       *)
(* <<>> when the key is absent, <<v>> when it is present with value v.     *)
(***************************************************************************)
NodeNames == <<"n1", "n2", "n3", "n4">>

\* wfl["metadata"]["name"]
WorkflowName == <<"wf1">>
KeyInside == <<"bucket", "/", "wf1", "/", "n1", "/", "out.tgz">>
KeyOutside == <<"bucket", "/", "cache", "/", "out.tgz">>
ReportedPath == <<"/", "tmp", "/", "out">>
MainLog == <<"main.log">>

\* Python's "needle in haystack" on strings
Contains(needle, haystack) ==
    \E i \in 0..(Len(haystack) - Len(needle)) :
        SubSeq(haystack, i + 1, i + Len(needle)) = needle

GCValues ==
    {<<>>, <<[strategy |-> <<>>]>>, <<[strategy |-> <<"Never">>]>>,
     <<[strategy |-> <<"OnWorkflowCompletion">>]>>}

AllArtifacts ==
    [s3key : {<<>>, <<KeyInside>>, <<KeyOutside>>},
     deleted : {<<>>, <<FALSE>>, <<TRUE>>},
     artifactGC : GCValues,
     name : {<<>>, <<"main-logs">>, <<"out">>},
     path : {<<>>, <<ReportedPath>>}]

\* An ordinary output artifact: key under the workflow, nothing optional.
Plain ==
    [s3key |-> <<KeyInside>>, deleted |-> <<>>, artifactGC |-> <<>>,
     name |-> <<"out">>, path |-> <<ReportedPath>>]

Deviations(a) ==
    Cardinality({f \in {"s3key", "deleted", "artifactGC", "name", "path"} :
                    a[f] # Plain[f]})

\* The artifacts the trees are built from: every artifact that differs from
\* Plain in one field, and those that pair a skipping field with a missing
\* later one.
Artifacts ==
    {a \in AllArtifacts : Deviations(a) <= 1}
    \cup {[Plain EXCEPT !.name = <<"main-logs">>, !.path = <<>>],
          [Plain EXCEPT !.s3key = <<KeyOutside>>, !.name = <<>>],
          [Plain EXCEPT !.deleted = <<TRUE>>, !.artifactGC = <<[strategy |-> <<>>]>>],
          [Plain EXCEPT !.artifactGC = <<[strategy |-> <<"Never">>]>>,
                        !.name = <<"main-logs">>]}

\* Per node: -2 no "outputs", -1 "outputs" without "artifacts", k >= 0 a
\* list of k artifacts.
RECURSIVE TotalOf(_)
TotalOf(shape) ==
    IF shape = <<>> THEN 0
    ELSE (IF Head(shape) > 0 THEN Head(shape) ELSE 0) + TotalOf(Tail(shape))

Shapes(n) ==
    {sh \in [1..n -> {-2, -1} \cup 0..MaxArtifacts] : TotalOf(sh) <= MaxArtifacts}

MkNode(i, shape, flat) ==
    LET before == TotalOf(SubSeq(shape, 1, i - 1)) IN
    [id |-> NodeNames[i],
     outputs |-> IF shape[i] = -2 THEN "absent"
                 ELSE IF shape[i] = -1 THEN "noartifacts" ELSE "list",
     artifacts |-> IF shape[i] > 0 THEN SubSeq(flat, before + 1, before + shape[i])
                   ELSE <<>>]

MkTree(shape, flat) ==
    [name |-> WorkflowName, hasNodes |-> TRUE,
     nodes |-> [i \in 1..Len(shape) |-> MkNode(i, shape, flat)]]

Triple(node_name, name, path) == [node |-> node_name, name |-> name, path |-> path]

\* ArtifactStep without the test of line 75
ArtifactStep_Mutant(w, node_name, a) ==
    IF a.s3key = <<>> THEN [kind |-> "raise", triple |-> <<>>]
    ELSE IF ~Contains(w.name, a.s3key[1]) THEN [kind |-> "skip", triple |-> <<>>]
    ELSE IF a.artifactGC # <<>> /\ a.artifactGC[1].strategy = <<>>
         THEN [kind |-> "raise", triple |-> <<>>]
    ELSE IF a.artifactGC # <<>> /\ a.artifactGC[1].strategy[1] # "Never"
         THEN [kind |-> "skip", triple |-> <<>>]
    ELSE IF a.name = <<>> THEN [kind |-> "raise", triple |-> <<>>]
    ELSE IF a.name[1] = "main-logs"
         THEN [kind |-> "append", triple |-> <<Triple(node_name, a.name[1], MainLog)>>]
    ELSE IF a.path = <<>> THEN [kind |-> "raise", triple |-> <<>>]
    ELSE [kind |-> "append", triple |-> <<Triple(node_name, a.name[1], a.path[1])>>]

\* lines 70-83, one artifact: "raise" (a KeyError), "skip" (continue) or
\* "append" with the triple
ArtifactStep(w, node_name, a) ==
    IF a.s3key = <<>> THEN [kind |-> "raise", triple |-> <<>>]
    ELSE IF ~Contains(w.name, a.s3key[1]) THEN [kind |-> "skip", triple |-> <<>>]
    ELSE IF a.deleted # <<>> /\ a.deleted[1] THEN [kind |-> "skip", triple |-> <<>>]
    ELSE IF a.artifactGC # <<>> /\ a.artifactGC[1].strategy = <<>>
         THEN [kind |-> "raise", triple |-> <<>>]
    ELSE IF a.artifactGC # <<>> /\ a.artifactGC[1].strategy[1] # "Never"
         THEN [kind |-> "skip", triple |-> <<>>]
    ELSE IF a.name = <<>> THEN [kind |-> "raise", triple |-> <<>>]
    ELSE IF a.name[1] = "main-logs"
         THEN [kind |-> "append", triple |-> <<Triple(node_name, a.name[1], MainLog)>>]
    ELSE IF a.path = <<>> THEN [kind |-> "raise", triple |-> <<>>]
    ELSE [kind |-> "append", triple |-> <<Triple(node_name, a.name[1], a.path[1])>>]

\* lines 68-83: the loop over one node's artifacts, appending to artifacts_list
RECURSIVE ScanArtifacts(_, _, _, _)
ScanArtifacts(w, node_name, artifacts, artifacts_list) ==
    IF artifacts = <<>> THEN [raised |-> FALSE, list |-> artifacts_list]
    ELSE LET r == ArtifactStep(w, node_name, Head(artifacts)) IN
         IF r.kind = "raise" THEN [raised |-> TRUE, list |-> <<>>]
         ELSE ScanArtifacts(w, node_name, Tail(artifacts), artifacts_list \o r.triple)

\* lines 61-83: the loop over the nodes
RECURSIVE ScanNodes(_, _, _)
ScanNodes(w, nodes, artifacts_list) ==
    IF nodes = <<>> THEN [raised |-> FALSE, list |-> artifacts_list]
    ELSE LET node == Head(nodes) IN
         IF node.outputs # "list" THEN ScanNodes(w, Tail(nodes), artifacts_list)
         ELSE LET r == ScanArtifacts(w, node.id, node.artifacts, artifacts_list) IN
              IF r.raised THEN r ELSE ScanNodes(w, Tail(nodes), r.list)

\* lines 53-85; an exception leaves no list behind
get_artifact_list(w) ==
    IF ~w.hasNodes THEN [raised |-> TRUE, list |-> <<>>]
    ELSE ScanNodes(w, w.nodes, <<>>)

\* The status responses of the model: one without status.nodes, and every
\* tree of at most MaxNodes nodes and MaxArtifacts artifacts.
FilterInit ==
    /\ \/ wfl = [name |-> WorkflowName, hasNodes |-> FALSE, nodes |-> <<>>]
       \/ \E n \in 0..MaxNodes : \E sh \in Shapes(n) :
             \E flat \in [1..TotalOf(sh) -> Artifacts] : wfl = MkTree(sh, flat)
    /\ fpc = "call"
    /\ fres = [raised |-> FALSE, list |-> <<>>]

CallFilter ==
    /\ fpc = "call"
    /\ fpc' = "done"
    /\ fres' = get_artifact_list(wfl)
    /\ UNCHANGED wfl

AsmIdle ==
    /\ pc = "idle" /\ created_ids = <<>> /\ repo = <<>> /\ calls = <<>>
    /\ loc = <<>> /\ updates = <<>>

InitFilter == FilterInit /\ AsmIdle /\ StreamIdle /\ ReconIdle /\ FilesIdle /\ RunsIdle

NextFilter == CallFilter /\ UNCHANGED <<asmVars, strVars, recVars, open_files, runVars>>

SpecFilter == InitFilter /\ [][NextFilter]_vars

(***************************************************************************)
(* _recursive_artifact_reader (argo.py, lines 88-114)                      *)
(*                                                                         *)
(* The artifact server holds a finite tree: node 1 is what the artifact's  *)
(* URL names, a "file" node answers with a Content-Disposition header, a   *)
(* "dir" node with an HTML page whose anchors are its children in order.   *)
(***************************************************************************)
MaxTreeNodes == 4

LinkNames == <<"e1", "e2", "e3", "e4", "e5", "e6", "e7">>
ParentLink == <<"..">>

\* url and path of the outermost call (artifact_reader, lines 122-129)
RootUrl == <<"argo", "/", "outputs", "/", "art">>
RootPath == <<"n1", "/", "out">>

\* HTTP status codes the server may answer with
Statuses == {200, 404}

ServerTrees ==
    UNION {
      {t \in [n : {n},
              kind : [1..n -> {"file", "dir"}],
              parent : [1..n -> 0..(n - 1)],
              dotdot : [1..n -> BOOLEAN],
              slash : BOOLEAN] :
          /\ t.parent[1] = 0
          /\ \A k \in 2..n : /\ t.parent[k] \in 1..(k - 1)
                              /\ t.kind[t.parent[k]] = "dir"
          /\ \A k \in 1..n : t.dotdot[k] => t.kind[k] = "dir"}
      : n \in 1..MaxTreeNodes}

\* the children of directory d, in the order of its page
Children(t, d) == SelectSeq([k \in 1..t.n |-> k], LAMBDA k : t.parent[k] = d)

\* the href of the anchor that leads to node k; a tree may say, in a field
\* "abs", which of its anchors carry an absolute href
Href(t, k) ==
    LET name == IF t.kind[k] = "dir" /\ t.slash THEN <<LinkNames[k], "/">>
                ELSE <<LinkNames[k]>>
    IN  IF "abs" \in DOMAIN t /\ t.abs[k] THEN <<"/">> \o name ELSE name

\* [link.get("href") for link in soup.find_all("a")] of directory d's page
Listing(t, d) ==
    (IF t.dotdot[d] THEN <<ParentLink>> ELSE <<>>)
    \o [j \in 1..Len(Children(t, d)) |-> Href(t, Children(t, d)[j])]

\* the node a URL names: the one reached by its last link name
NodeOf(url) ==
    LET names == SelectSeq(url, LAMBDA x : \E k \in 1..Len(LinkNames) : LinkNames[k] = x)
    IN  IF names = <<>> THEN 1
        ELSE CHOOSE k \in 1..Len(LinkNames) : LinkNames[k] = names[Len(names)]

\* os.path.join(path, href)
PathJoin(path, href) ==
    IF href # <<>> /\ Head(href) = "/" THEN href
    ELSE IF path = <<>> \/ path[Len(path)] = "/" THEN path \o href
    ELSE path \o <<"/">> \o href

\* urllib.parse.urljoin(base, href) for a base that ends with "/"
UrlJoin(base, href) ==
    IF href # <<>> /\ Head(href) = "/" THEN <<Head(base)>> \o href
    ELSE base \o href

Frame(url, path) ==
    [url |-> url, path |-> path, phase |-> "start", status |-> 0, links |-> <<>>]

Top == stack[Len(stack)]
SetTop(f) == [stack EXCEPT ![Len(stack)] = f]
Pop == SubSeq(stack, 1, Len(stack) - 1)

Conn(url, kind) == [url |-> url, kind |-> kind]
Req(url, kind, status) ==
    [url |-> url, kind |-> kind, status |-> status,
     probeOpen |-> Conn(url, "probe") \in conns]

StreamInit ==
    /\ server \in ServerTrees
    /\ spc = "created"
    /\ stack = <<Frame(RootUrl, RootPath)>>
    /\ conns = {}
    /\ reqs = <<>>
    /\ yielded = <<>>

\* the consumer asks for the next pair; a generator suspended at the yield
\* of line 103 runs to its end
Resume ==
    /\ spc \in {"created", "suspended"}
    /\ IF spc = "created"
       THEN spc' = "running" /\ UNCHANGED stack
       ELSE /\ Conn(Top.url, "download") \notin conns
            /\ stack' = Pop
            /\ spc' = IF Pop = <<>> THEN "done" ELSE "running"
    /\ UNCHANGED <<server, conns, reqs, yielded>>

\* the consumer reads the content iterator to its end, which releases the
\* download connection
Drain ==
    /\ spc = "suspended"
    /\ Conn(Top.url, "download") \in conns
    /\ conns' = conns \ {Conn(Top.url, "download")}
    /\ UNCHANGED <<server, spc, stack, reqs, yielded>>

\* line 94: requests.get(url, stream=True) as response
OpenProbe ==
    /\ spc = "running"
    /\ Top.phase = "start"
    /\ \E status \in Statuses :
          /\ reqs' = Append(reqs, Req(Top.url, "probe", status))
          /\ stack' = SetTop([Top EXCEPT !.phase = "probing", !.status = status])
    /\ conns' = conns \cup {Conn(Top.url, "probe")}
    /\ UNCHANGED <<server, spc, yielded>>

\* ReadHeaders with the response left open
ReadHeaders_Mutant ==
    /\ spc = "running"
    /\ Top.phase = "probing"
    /\ UNCHANGED conns
    /\ IF Top.status # 200 /\ Top.status >= 400
       THEN spc' = "failed" /\ UNCHANGED stack
       ELSE /\ stack' = SetTop([Top EXCEPT !.phase = server.kind[NodeOf(Top.url)]])
            /\ UNCHANGED spc
    /\ UNCHANGED <<server, reqs, yielded>>

\* lines 95-97 and the end of the with block, which closes the response
ReadHeaders ==
    /\ spc = "running"
    /\ Top.phase = "probing"
    /\ conns' = conns \ {Conn(Top.url, "probe")}
    /\ IF Top.status # 200 /\ Top.status >= 400
       THEN spc' = "failed" /\ UNCHANGED stack
       ELSE /\ stack' = SetTop([Top EXCEPT !.phase = server.kind[NodeOf(Top.url)]])
            /\ UNCHANGED spc
    /\ UNCHANGED <<server, reqs, yielded>>

\* lines 101-103: the streaming GET, raise_for_status, the yield
OpenDownload ==
    /\ spc = "running"
    /\ Top.phase = "file"
    /\ \E status \in Statuses :
          /\ reqs' = Append(reqs, Req(Top.url, "download", status))
          /\ conns' = conns \cup {Conn(Top.url, "download")}
          /\ IF status >= 400
             THEN spc' = "failed" /\ UNCHANGED <<stack, yielded>>
             ELSE /\ spc' = "suspended"
                  /\ stack' = SetTop([Top EXCEPT !.phase = "yielded"])
                  /\ yielded' = Append(yielded, [path |-> Top.path, url |-> Top.url])
    /\ UNCHANGED server

\* lines 106-108: the page is fetched whole and its anchors collected; the
\* status is not looked at, and an error page has no anchors
ListDirectory ==
    /\ spc = "running"
    /\ Top.phase = "dir"
    /\ \E status \in Statuses :
          /\ reqs' = Append(reqs, Req(Top.url, "listing", status))
          /\ stack' = SetTop([Top EXCEPT
                 !.phase = "links",
                 !.links = IF status = 200 THEN Listing(server, NodeOf(Top.url))
                           ELSE <<>>])
    /\ UNCHANGED <<server, spc, conns, yielded>>

\* Skipped passing over sub-directory links as well
Skipped_Mutant(href) == href = ParentLink \/ href[Len(href)] = "/"
\* line 110: the links the loop passes over
Skipped(href) == href = ParentLink

\* lines 108-114, one anchor: skipped, or a nested generator for it
NextLink ==
    /\ spc = "running"
    /\ Top.phase = "links"
    /\ Top.links # <<>>
    /\ LET href == Head(Top.links)
           rest == SetTop([Top EXCEPT !.links = Tail(@)]) IN
       stack' = IF Skipped(href) THEN rest
                ELSE Append(rest, Frame(UrlJoin(Top.url \o <<"/">>, href),
                                        PathJoin(Top.path, href)))
    /\ UNCHANGED <<server, spc, conns, reqs, yielded>>

\* the loop of line 108 is exhausted: this generator ends
EndOfLinks ==
    /\ spc = "running"
    /\ Top.phase = "links"
    /\ Top.links = <<>>
    /\ stack' = Pop
    /\ spc' = IF Pop = <<>> THEN "done" ELSE "running"
    /\ UNCHANGED <<server, conns, reqs, yielded>>

InitStream == StreamInit /\ AsmIdle /\ FilterIdle /\ ReconIdle /\ FilesIdle /\ RunsIdle

NextStream ==
    \/ Resume /\ UNCHANGED <<asmVars, fltVars, recVars, open_files, runVars>>
    \/ Drain /\ UNCHANGED <<asmVars, fltVars, recVars, open_files, runVars>>
    \/ OpenProbe /\ UNCHANGED <<asmVars, fltVars, recVars, open_files, runVars>>
    \/ ReadHeaders /\ UNCHANGED <<asmVars, fltVars, recVars, open_files, runVars>>
    \/ OpenDownload /\ UNCHANGED <<asmVars, fltVars, recVars, open_files, runVars>>
    \/ ListDirectory /\ UNCHANGED <<asmVars, fltVars, recVars, open_files, runVars>>
    \/ NextLink /\ UNCHANGED <<asmVars, fltVars, recVars, open_files, runVars>>
    \/ EndOfLinks /\ UNCHANGED <<asmVars, fltVars, recVars, open_files, runVars>>

SpecStream == InitStream /\ [][NextStream]_vars

\* The generator runs whenever it can and the consumer keeps consuming.
SpecStreamFair == SpecStream /\ WF_vars(NextStream)

(***************************************************************************)
(* One ingestion run with its artifact stream (SpecIngest): the loop of    *)
(* cordra.py, lines 51-101, is the consumer of the generator chain of      *)
(* argo.py; conns holds the HTTP connections and open_files the local      *)
(* files the run has open.  The run is followed from its start to the end  *)
(* of that loop, and through the handler of line 236 when it fails; lines  *)
(* 103-234 use neither the stream nor a local file.                        *)
(* Python closes what a with block manages when                            *)
(* the block is left; an object the code never closes stays open until the *)
(* interpreter finalises it, which may happen at any later moment or not   *)
(* at all.                                                                 *)
(***************************************************************************)
MaxIngestNodes == 4

TreesOf(n) ==
    {t \in [n : {n},
            kind : [1..n -> {"file", "dir"}],
            parent : [1..n -> 0..(n - 1)],
            dotdot : [1..n -> BOOLEAN],
            slash : BOOLEAN] :
        /\ t.parent[1] = 0
        /\ \A k \in 2..n : /\ t.parent[k] \in 1..(k - 1)
                            /\ t.kind[t.parent[k]] = "dir"
        /\ \A k \in 1..n : t.dotdot[k] => t.kind[k] = "dir"}

IngestStreamInit ==
    /\ \E n \in 1..MaxIngestNodes : server \in TreesOf(n)
    /\ spc = "created"
    /\ stack = <<Frame(RootUrl, RootPath)>>
    /\ conns = {}
    /\ reqs = <<>>
    /\ yielded = <<>>

Downloads == {c \in conns : c.kind = "download"}

\* cordra.py line 51, the for statement calls next() on the generator: it
\* starts, or goes on after the yield of argo.py line 103 and ends there
Ask ==
    /\ pc = "files"
    /\ spc \in {"created", "suspended"}
    /\ pc' = "next"
    /\ IF spc = "created"
       THEN spc' = "running" /\ UNCHANGED stack
       ELSE /\ stack' = Pop
            /\ spc' = IF Pop = <<>> THEN "done" ELSE "running"
    /\ UNCHANGED <<created_ids, repo, calls, loc, updates>>
    /\ UNCHANGED <<server, conns, reqs, yielded, open_files>>

\* next() comes back: with a pair, for which the temporary file of line 58
\* is opened; with StopIteration, which ends the loop; or with the
\* exception the generator raised
Receive ==
    /\ pc = "next"
    /\ spc \in {"suspended", "done", "failed"}
    /\ CASE spc = "suspended" ->
              /\ pc' = "download"
              /\ loc' = [loc EXCEPT !.nFiles = @ + 1]
              /\ open_files' = [open_files EXCEPT !.tmp = @ + 1]
         [] spc = "done" ->
              /\ pc' = "params"
              /\ UNCHANGED <<loc, open_files>>
         [] spc = "failed" ->
              /\ Raise("TransportError")
              /\ UNCHANGED open_files
    /\ UNCHANGED <<created_ids, repo, calls, updates>>
    /\ UNCHANGED strVars

\* IngestDownload with the connection kept after the last chunk
IngestDownload_Mutant ==
    /\ Download
    /\ IF pc' = "sizecheck"
       THEN UNCHANGED <<conns, open_files>>
       ELSE /\ open_files' = [open_files EXCEPT !.tmp = @ - 1]
            /\ \E broken \in BOOLEAN :
                  conns' = IF broken THEN conns \ Downloads ELSE conns
    /\ UNCHANGED <<server, spc, stack, reqs, yielded>>

\* cordra.py lines 60-70.  Reading the body to its end releases the
\* connection.  On an exception the code closes the content iterator, which
\* ends that generator and does not close the response it reads from: the
\* connection is gone only if it is what broke; raise e leaves the with
\* block, which closes the temporary file.
IngestDownload ==
    /\ Download
    /\ IF pc' = "sizecheck"
       THEN conns' = conns \ Downloads /\ UNCHANGED open_files
       ELSE /\ open_files' = [open_files EXCEPT !.tmp = @ - 1]
            /\ \E broken \in BOOLEAN :
                  conns' = IF broken THEN conns \ Downloads ELSE conns
    /\ UNCHANGED <<server, spc, stack, reqs, yielded>>

\* cordra.py lines 75-77: continue leaves the with block
IngestSizeCheck ==
    /\ SizeCheck
    /\ open_files' = IF pc' = "files" THEN [open_files EXCEPT !.tmp = @ - 1]
                     ELSE open_files
    /\ UNCHANGED strVars

\* cordra.py lines 80-101: open(tmp_file.name, "rb") of line 97 is handed to
\* the create call and never closed; the with block is left when the call
\* has returned and when it has raised
IngestCreateFileObject ==
    /\ CreateFileObject
    /\ open_files' = [tmp |-> open_files.tmp - 1, rb |-> open_files.rb + 1]
    /\ UNCHANGED strVars

\* The interpreter finalises an object the run no longer uses: a read handle
\* of line 97 after its create call, the response of argo.py line 101 once
\* the run is in the handler of cordra.py line 236.
Finalize ==
    /\ \/ /\ open_files.rb > 0
          /\ open_files' = [open_files EXCEPT !.rb = @ - 1]
          /\ UNCHANGED conns
       \/ /\ pc \in {"rollback", "raised"}
          /\ Downloads # {}
          /\ conns' = conns \ Downloads
          /\ UNCHANGED open_files
    /\ UNCHANGED <<asmVars, server, spc, stack, reqs, yielded>>

InitIngest ==
    AsmInit /\ IngestStreamInit /\ FilterIdle /\ ReconIdle /\ FilesIdle /\ RunsIdle

NextIngest ==
    \/ ReadAnnotations /\ UNCHANGED <<fltVars, strVars, recVars, open_files, runVars>>
    \/ PersonsDone /\ UNCHANGED <<fltVars, strVars, recVars, open_files, runVars>>
    \/ Ask /\ UNCHANGED <<fltVars, recVars, runVars>>
    \/ OpenProbe /\ UNCHANGED <<asmVars, fltVars, recVars, open_files, runVars>>
    \/ ReadHeaders /\ UNCHANGED <<asmVars, fltVars, recVars, open_files, runVars>>
    \/ OpenDownload /\ UNCHANGED <<asmVars, fltVars, recVars, open_files, runVars>>
    \/ ListDirectory /\ UNCHANGED <<asmVars, fltVars, recVars, open_files, runVars>>
    \/ NextLink /\ UNCHANGED <<asmVars, fltVars, recVars, open_files, runVars>>
    \/ EndOfLinks /\ UNCHANGED <<asmVars, fltVars, recVars, open_files, runVars>>
    \/ Receive /\ UNCHANGED <<fltVars, recVars, runVars>>
    \/ IngestDownload /\ UNCHANGED <<fltVars, recVars, runVars>>
    \/ IngestSizeCheck /\ UNCHANGED <<fltVars, recVars, runVars>>
    \/ IngestCreateFileObject /\ UNCHANGED <<fltVars, recVars, runVars>>
    \/ Finalize /\ UNCHANGED <<fltVars, recVars, runVars>>
    \/ Delete /\ UNCHANGED <<fltVars, strVars, recVars, open_files, runVars>>
    \/ Reraise /\ UNCHANGED <<fltVars, strVars, recVars, open_files, runVars>>

SpecIngest == InitIngest /\ [][NextIngest]_vars

(***************************************************************************)
(* reconstruct_workflow as an operation on its own.                        *)
(***************************************************************************)
ReconInit ==
    /\ reported \in StatusResponses
    /\ response = reported
    /\ rpc = "call"
    /\ rdoc = [raised |-> FALSE, doc |-> <<>>]

CallReconstruct ==
    /\ rpc = "call"
    /\ rpc' = "done"
    /\ LET r == reconstruct_workflow(response) IN
          /\ rdoc' = [raised |-> r.raised, doc |-> r.doc]
          /\ response' = r.wfl
    /\ UNCHANGED reported

InitReconstruct ==
    ReconInit /\ AsmIdle /\ FilterIdle /\ StreamIdle /\ FilesIdle /\ RunsIdle

NextReconstruct ==
    CallReconstruct /\ UNCHANGED <<asmVars, fltVars, strVars, open_files, runVars>>

SpecReconstruct == InitReconstruct /\ [][NextReconstruct]_vars

(***************************************************************************)
(* artifact_reader for one triple of the artifact list (SpecPaths): the    *)
(* url and the path of lines 122-128 are computed from the triple, and the *)
(* pages of the server may carry absolute hrefs.                           *)
(***************************************************************************)
MaxPathNodes == 3

\* file_path as the engine reports it: relative, absolute, and with two
\* leading separators
ReportedPaths == {<<"out">>, ReportedPath, <<"/">> \o ReportedPath}

\* line 123: the url of the artifact
ArtifactUrl(node_id, artifact_name) ==
    <<"argo", "/", node_id, "/", "outputs", "/", artifact_name>>

\* lines 126-128: one leading "/" is cut, then os.path.join(node_id, file_path)
ArtifactPath(node_id, file_path) ==
    PathJoin(<<node_id>>,
             IF file_path # <<>> /\ Head(file_path) = "/" THEN Tail(file_path)
             ELSE file_path)

PathTrees(n) ==
    {[n |-> t.n, kind |-> t.kind, parent |-> t.parent, dotdot |-> t.dotdot,
      slash |-> t.slash, abs |-> a] :
        t \in TreesOf(n), a \in {f \in [1..n -> BOOLEAN] : ~f[1]}}

PathsInit ==
    /\ wfl = <<>>
    /\ fpc = "done"
    /\ \E node_id \in {NodeNames[1], NodeNames[2]}, file_path \in ReportedPaths :
          /\ fres = [raised |-> FALSE,
                     list |-> <<Triple(node_id, "out", file_path)>>]
          /\ stack = <<Frame(ArtifactUrl(node_id, "out"),
                             ArtifactPath(node_id, file_path))>>
    /\ \E n \in 1..MaxPathNodes : server \in PathTrees(n)
    /\ spc = "created"
    /\ conns = {}
    /\ reqs = <<>>
    /\ yielded = <<>>

InitPaths == PathsInit /\ AsmIdle /\ ReconIdle /\ FilesIdle /\ RunsIdle

SpecPaths == InitPaths /\ [][NextStream]_vars

(***************************************************************************)
(* Several ingestion runs against one repository (SpecRuns).               *)
(*                                                                         *)
(* notify (main.py, lines 136-137) hands every accepted notification to a  *)
(* background task, so calls of create_dataset_from_workflow_artifacts     *)
(* overlap; a step of a run is one repository call or the end of a loop.   *)
(* The workflows ingested here have no submitter annotation and no         *)
(* parameter, and up to MaxRunFiles artifacts that are uploaded.           *)
(***************************************************************************)
Runs == {1, 2}
MaxRunFiles == 1

\* the identifier the repository gives to the next record: one it has never
\* handed out
NewId == Len(store.by) + 1

\* Ledger with one dict shared by all calls of the function
Ledger_Mutant(r) == runs[1].created_ids \o runs[2].created_ids
\* cordra.py line 32: created_ids = {} is a local variable of the call
Ledger(r) == runs[r].created_ids

RunsInit ==
    /\ runs = [r \in Runs |->
                 [pc |-> "files", created_ids |-> <<>>, nFiles |-> 0, k |-> 0]]
    /\ store = [by |-> <<>>, alive |-> {}]

\* the handler of line 236 is entered
RunRaise(r) == runs' = [runs EXCEPT ![r].pc = "rollback", ![r].k = 1]

\* a create call of run r and, when it succeeded, the ledger entry after it
RunCreate(r, type, next) ==
    \E ok \in BOOLEAN :
       IF ok
       THEN /\ store' = [by |-> Append(store.by, r),
                         alive |-> store.alive \cup {NewId}]
            /\ runs' = [runs EXCEPT
                  ![r].created_ids = DictSet(@, NewId, type),
                  ![r].pc = next,
                  ![r].nFiles = IF type = "FileObject" THEN @ + 1 ELSE @,
                  ![r].k = 1]
       ELSE RunRaise(r) /\ UNCHANGED store

\* lines 51-101, one artifact
RunCreateFileObject(r) ==
    /\ runs[r].pc = "files"
    /\ runs[r].nFiles < MaxRunFiles
    /\ RunCreate(r, "FileObject", "files")

\* the artifact stream is exhausted
RunStreamEnd(r) ==
    /\ runs[r].pc = "files"
    /\ runs' = [runs EXCEPT ![r].pc = "workflow"]
    /\ UNCHANGED store

\* lines 126-146
RunCreateWorkflow(r) ==
    /\ runs[r].pc = "workflow"
    /\ RunCreate(r, "Workflow", "action")

\* lines 163-177
RunCreateAction(r) ==
    /\ runs[r].pc = "action"
    /\ RunCreate(r, "CreateAction", "dataset")

\* lines 179-222
RunCreateDataset(r) ==
    /\ runs[r].pc = "dataset"
    /\ RunCreate(r, "Dataset", "backpatch")

\* lines 226-232, one FileObject of the ledger: read and update, which raise
\* when the record is not in the repository
RunBackpatch(r) ==
    /\ runs[r].pc = "backpatch"
    /\ runs[r].k <= Len(IdsOfType(Ledger(r), "FileObject"))
    /\ LET id == IdsOfType(Ledger(r), "FileObject")[runs[r].k] IN
       \E ok \in (IF id \in store.alive THEN BOOLEAN ELSE {FALSE}) :
          IF ok THEN runs' = [runs EXCEPT ![r].k = @ + 1]
          ELSE RunRaise(r)
    /\ UNCHANGED store

\* lines 234-235
RunReturn(r) ==
    /\ runs[r].pc = "backpatch"
    /\ runs[r].k > Len(IdsOfType(Ledger(r), "FileObject"))
    /\ runs' = [runs EXCEPT ![r].pc = "returned"]
    /\ UNCHANGED store

\* lines 238-239, one ledger entry; delete raises when it fails and when the
\* record is not in the repository
RunDelete(r) ==
    /\ runs[r].pc = "rollback"
    /\ runs[r].k <= Len(Ledger(r))
    /\ LET id == Ledger(r)[runs[r].k].id IN
       \E ok \in (IF id \in store.alive THEN BOOLEAN ELSE {FALSE}) :
          IF ok
          THEN /\ store' = [store EXCEPT !.alive = @ \ {id}]
               /\ runs' = [runs EXCEPT ![r].k = @ + 1]
          ELSE /\ runs' = [runs EXCEPT ![r].pc = "raised"]
               /\ UNCHANGED store

\* line 240
RunReraise(r) ==
    /\ runs[r].pc = "rollback"
    /\ runs[r].k > Len(Ledger(r))
    /\ runs' = [runs EXCEPT ![r].pc = "raised"]
    /\ UNCHANGED store

InitRuns ==
    RunsInit /\ AsmIdle /\ FilterIdle /\ StreamIdle /\ ReconIdle /\ FilesIdle

NextRuns ==
    \/ \E r \in Runs : RunCreateFileObject(r) /\ UNCHANGED singleVars
    \/ \E r \in Runs : RunStreamEnd(r) /\ UNCHANGED singleVars
    \/ \E r \in Runs : RunCreateWorkflow(r) /\ UNCHANGED singleVars
    \/ \E r \in Runs : RunCreateAction(r) /\ UNCHANGED singleVars
    \/ \E r \in Runs : RunCreateDataset(r) /\ UNCHANGED singleVars
    \/ \E r \in Runs : RunBackpatch(r) /\ UNCHANGED singleVars
    \/ \E r \in Runs : RunReturn(r) /\ UNCHANGED singleVars
    \/ \E r \in Runs : RunDelete(r) /\ UNCHANGED singleVars
    \/ \E r \in Runs : RunReraise(r) /\ UNCHANGED singleVars

SpecRuns == InitRuns /\ [][NextRuns]_vars

(***************************************************************************)
(* Properties of create_dataset_from_workflow_artifacts.                   *)
(***************************************************************************)
CallsOf(op) == SelectSeq(calls, LAMBDA c : c.op = op)
DeleteCalls == CallsOf("delete")
OkCreates(type) ==
    SelectSeq(calls, LAMBDA c : c.op = "create" /\ c.type = type /\ c.ok)
CreateCalls(type) ==
    SelectSeq(calls, LAMBDA c : c.op = "create" /\ c.type = type)
DeletesOf(id) == SelectSeq(calls, LAMBDA c : c.op = "delete" /\ c.id = id)
LedgerIds == {created_ids[i].id : i \in 1..Len(created_ids)}
SmallSizes == SelectSeq(loc.sizes, LAMBDA z : z <= FileMaxSize)
LargeSizes == SelectSeq(loc.sizes, LAMBDA z : z > FileMaxSize)

\* C1: when the run has ended in failure, every identifier of the ledger was
\* deleted from the repository by exactly one delete call, and the error
\* re-raised is the one that made the run fail.
C1_LedgerDeletedOnceAndReraised ==
    pc = "raised" =>
        /\ \A id \in LedgerIds : Len(DeletesOf(id)) = 1 /\ id \notin DOMAIN repo
        /\ loc.err # "DeleteError"

\* C2: after a run that ended in failure no record created by the run is
\* left in the repository.
C2_NoRecordLeftAfterFailure ==
    pc = "raised" => DOMAIN repo = {}

\* The scenario of C3: the Dataset create raised after 3 FileObject and
\* 2 Person records had been created.
C3_Scenario ==
    /\ Len(CreateCalls("Dataset")) = 1
    /\ Len(OkCreates("Dataset")) = 0
    /\ Len(OkCreates("FileObject")) = 3
    /\ Len(OkCreates("Person")) = 2

\* C3 as stated: in that scenario exactly 5 delete calls are issued and no
\* Dataset or CreateAction record ever exists.
C3_FiveDeletesNoAction ==
    C3_Scenario =>
        /\ pc = "raised" => Len(DeleteCalls) = 5
        /\ Len(OkCreates("Dataset")) = 0
        /\ Len(OkCreates("CreateAction")) = 0

\* C3 amended: in that scenario the ledger holds the 5 records, the Workflow
\* and the CreateAction (both created before the Dataset) and the parameter
\* records; delete calls are issued for ledger entries only, in ledger order,
\* one each, for the whole ledger unless a delete itself raises; no Dataset
\* record ever exists.
C3_LedgerDeletedNoDataset ==
    C3_Scenario =>
        LET nParams == Len(OkCreates("FormalParameter")) + Len(OkCreates("PropertyValue"))
        IN  /\ Len(created_ids) = 7 + nParams
            /\ Len(OkCreates("Workflow")) = 1
            /\ Len(OkCreates("CreateAction")) = 1
            /\ \A id \in DOMAIN repo : repo[id].type # "Dataset"
            /\ Len(DeleteCalls) <= Len(created_ids)
            /\ \A i \in 1..Len(DeleteCalls) : DeleteCalls[i].id = created_ids[i].id
            /\ (pc = "raised" /\ loc.err # "DeleteError")
                  => Len(DeleteCalls) = 7 + nParams

C3_Witness ==
    /\ C3_Scenario
    /\ pc = "raised"
    /\ Len(DeleteCalls) = 7
    /\ DOMAIN repo = {}

\* The position of a repository call in the fixed order of one run.
Rank(c) ==
    CASE c.op = "delete" -> 8
      [] c.op \in {"read", "update"} -> 7
      [] c.type = "Person" -> 1
      [] c.type = "FileObject" -> 2
      [] c.type \in {"FormalParameter", "PropertyValue"} -> 3
      [] c.type = "Workflow" -> 4
      [] c.type = "CreateAction" -> 5
      [] c.type = "Dataset" -> 6

\* A step that enters the handler of line 236.
FailStep == Next /\ pc' = "rollback"

\* Once the handler is entered the run stays in it and issues only deletes.
RollbackStep ==
    pc \in {"rollback", "raised"} =>
        /\ pc' \in {"rollback", "raised"}
        /\ calls' # calls => calls'[Len(calls')].op = "delete"

\* C4: the calls of a run follow the order Person, FileObject,
\* FormalParameter/PropertyValue, Workflow, CreateAction, Dataset, back-patch,
\* delete (so nothing is created or updated once a delete was issued); a run
\* that returns gives the Dataset identifier, has issued no delete and finds
\* all its records in the repository; wherever a remote call or a lookup is
\* pending the run can enter the rollback.
C4_StateMachine ==
    /\ [](/\ \A i \in 1..(Len(calls) - 1) : Rank(calls[i]) <= Rank(calls[i + 1])
          /\ Len(CreateCalls("Workflow")) <= 1
          /\ Len(CreateCalls("CreateAction")) <= 1
          /\ Len(CreateCalls("Dataset")) <= 1
          /\ pc = "returned" =>
                /\ DeleteCalls = <<>>
                /\ loc.result # None
                /\ loc.result \in DOMAIN repo
                /\ repo[loc.result].type = "Dataset"
                /\ LedgerIds = DOMAIN repo
                /\ DOMAIN repo = 1..(NextId - 1)
          /\ pc \in {"files", "download", "upload", "params", "value",
                     "times", "action", "properties", "dataset", "update"}
                => ENABLED FailStep)
    /\ [][RollbackStep]_vars

C4_Witness ==
    /\ pc = "returned"
    /\ Len(OkCreates("Person")) = 2
    /\ Len(OkCreates("FileObject")) >= 2
    /\ Len(OkCreates("PropertyValue")) = 1
    /\ Len(CallsOf("update")) >= 2

\* C5: an oversize file gets no FileObject create call and no ledger entry
\* and the loop goes on with the next pair; a file of at most file_max_size
\* goes on to be uploaded.  So every file of at most file_max_size that was
\* processed has its create call, and no other FileObject create is issued.
C5_OversizeSkipped ==
    /\ LET pending == IF pc \in {"sizecheck", "upload"}
                         /\ loc.file_size <= FileMaxSize THEN 1 ELSE 0
       IN  Len(CreateCalls("FileObject")) = Len(SmallSizes) - pending
    /\ Len(IdsOfType(created_ids, "FileObject")) = Len(OkCreates("FileObject"))
    /\ \A id \in DOMAIN repo :
          repo[id].type = "FileObject" => repo[id].contentSize <= FileMaxSize
    /\ pc = "returned" =>
          Len(IdsOfType(created_ids, "FileObject")) = Len(SmallSizes)
    /\ pc = "sizecheck" =>
          ENABLED (SizeCheck /\ pc' = IF loc.file_size > FileMaxSize
                                      THEN "files" ELSE "upload")
    /\ pc = "sizecheck" =>
          ~ ENABLED (SizeCheck /\ pc' # IF loc.file_size > FileMaxSize
                                        THEN "files" ELSE "upload")

C5_Witness ==
    /\ pc = "returned"
    /\ Len(LargeSizes) >= 1
    /\ Len(SmallSizes) >= 1
    /\ loc.sizes[1] > FileMaxSize
    /\ Len(IdsOfType(created_ids, "FileObject")) = Len(SmallSizes)

\* C6: every back-patch update writes back the partOf it read when that was
\* a non-null reference, and the new Dataset identifier otherwise.
C6_PartOfKept ==
    \A i \in 1..Len(updates) :
        LET u == updates[i] IN
        /\ u.written.partOf =
              IF u.read.partOf.kind = "list" THEN u.read.partOf
              ELSE ListOf(<<loc.dataset>>)
        /\ (u.ok /\ u.id \in DOMAIN repo)
              => repo[u.id].partOf = u.written.partOf

C6_Witness ==
    /\ pc = "returned"
    /\ Len(CallsOf("update")) = 2
    /\ repo[BackpatchIds[1]].partOf = ListOf(<<0>>)
    /\ updates[1].id = BackpatchIds[2]
    /\ updates[1].read.partOf = Null
    /\ repo[updates[1].id].partOf = ListOf(<<loc.dataset>>)

(***************************************************************************)
(* Properties of the record graph.                                         *)
(***************************************************************************)
\* the identifiers of the records of a type created by this run, in order
CreatedOf(type) == [i \in 1..Len(OkCreates(type)) |-> OkCreates(type)[i].id]

\* the Person records created for the annotation submitterId<n>
PersonsOf(n) ==
    {id \in DOMAIN repo : repo[id].type = "Person" /\ repo[id].json.identifier = n}

Running == pc \notin {"rollback", "raised"}

\* The run has failed on a lookup before any repository call and before the
\* first pair was asked for.
ExtractionFailed ==
    ~Running /\ loc.err = "KeyError" /\ calls = <<>> /\ loc.nFiles = 0

\* C14: one Person record is created per numbered submitterId annotation of
\* the workflow document, and the CreateAction's agent is the Person created
\* for number 1, or is not set when there is none; a document that has no
\* such annotation, as one without annotations has none, does not make the
\* run fail.
C14_OnePersonEachAndAgent ==
    /\ "annotations" \notin loc.reconstructed_wfl.metadata => ~ExtractionFailed
    /\ Len(OkCreates("Person")) = Cardinality(loc.seen)
    /\ Running =>
          /\ \A n \in loc.seen : Cardinality(PersonsOf(n)) = 1
          /\ \A n \in (1..MaxPersons) \ loc.seen : PersonsOf(n) = {}
          /\ loc.action # None =>
                repo[loc.action].json.agent =
                    IF 1 \in loc.seen
                    THEN <<CHOOSE id \in PersonsOf(1) : TRUE>> ELSE <<>>

\* the entries of a comma-separated list, empty entries dropped
KeywordEntries(str) == SelectSeq(str, LAMBDA t : t # ",")

\* C15: the properties the Dataset is created with carry the license of the
\* workflow's license annotation and, as keywords, the entries of its
\* keywords annotation.
C15_LicenseAndKeywords ==
    pc = "dataset" =>
        /\ loc.properties.license = loc.metadata.license
        /\ loc.properties.keywords =
              IF loc.metadata.keywords = <<>> THEN <<>>
              ELSE <<KeywordEntries(loc.metadata.keywords[1])>>

\* C16: a run on a document that reconstruct_workflow returned, in which no
\* repository call and no transport fails, ends with the Dataset identifier.
C16_ReconstructedDocumentAssembles ==
    (/\ loc.reconstructed_wfl \in {DocShape(d) : d \in ReconstructedDocuments}
     /\ pc \in {"returned", "raised"}
     /\ \A i \in 1..Len(calls) : calls[i].ok
     /\ loc.err \notin {"TransportError", "RepositoryError", "DeleteError"})
        => pc = "returned" /\ loc.result = loc.dataset /\ loc.dataset # None

\* C17: at the return the CreateAction and the Dataset refer to exactly the
\* records of this run: instrument and mainEntity the Workflow, result the
\* FileObjects, object the PropertyValues, author the Persons, hasPart the
\* FileObjects and the Workflow, mentions the CreateAction; all of them are
\* in the repository.
C17_GraphClosedAndExact ==
    pc = "returned" =>
        LET a == repo[loc.action].json
            d == repo[loc.dataset].json
            w == CreatedOf("Workflow")
            refs == {a.instrument, d.mainEntity}
                    \cup {a.result[i] : i \in 1..Len(a.result)}
                    \cup {a.object[i] : i \in 1..Len(a.object)}
                    \cup {a.agent[i] : i \in 1..Len(a.agent)}
                    \cup {d.author[i] : i \in 1..Len(d.author)}
                    \cup {d.hasPart[i] : i \in 1..Len(d.hasPart)}
                    \cup {d.mentions[i] : i \in 1..Len(d.mentions)}
        IN  /\ repo[loc.action].type = "CreateAction"
            /\ repo[loc.dataset].type = "Dataset"
            /\ Len(w) = 1
            /\ a.instrument = w[1]
            /\ a.result = CreatedOf("FileObject")
            /\ a.object = CreatedOf("PropertyValue")
            /\ d.author = CreatedOf("Person")
            /\ d.hasPart = CreatedOf("FileObject") \o w
            /\ d.mentions = CreatedOf("CreateAction")
            /\ d.mentions = <<loc.action>>
            /\ d.mainEntity = w[1]
            /\ refs \subseteq DOMAIN repo
            /\ \A id \in refs : \E i \in 1..Len(calls) :
                  calls[i].op = "create" /\ calls[i].ok /\ calls[i].id = id

C17_Witness ==
    /\ pc = "returned"
    /\ Len(CreatedOf("Person")) = 2
    /\ Len(CreatedOf("FileObject")) = 2
    /\ Len(CreatedOf("PropertyValue")) = 1
    /\ Len(LargeSizes) = 1
    /\ Len(repo[loc.dataset].json.hasPart) = 3
    /\ Len(repo[loc.action].json.result) = 2

\* the finish timestamps among the nodes the run has looked at
NodeFinishes ==
    {loc.times.nodes[i] : i \in 1..Len(loc.times.nodes)} \ {None}

Latest(S) == CHOOSE t \in S : \A u \in S : u <= t

\* C18: the end time is the workflow's finish timestamp when it has one and
\* the latest finish timestamp of the nodes otherwise, and it is the end time
\* the CreateAction is created with; a run that finds no finish timestamp at
\* all fails before the CreateAction and the Dataset are created and enters
\* the rollback.
C18_EndTime ==
    /\ pc = "action" =>
          /\ loc.times.finishedAt # None => loc.end_time = loc.times.finishedAt
          /\ loc.times.finishedAt = None =>
                /\ NodeFinishes # {}
                /\ loc.end_time = Latest(NodeFinishes)
    /\ (loc.action # None /\ loc.action \in DOMAIN repo) =>
          /\ loc.end_time \in Timestamps
          /\ repo[loc.action].json.endTime = loc.end_time
    /\ loc.err = "AttributeError" =>
          /\ pc \in {"rollback", "raised"}
          /\ CreateCalls("CreateAction") = <<>>
          /\ CreateCalls("Dataset") = <<>>
    /\ pc = "times" =>
          ENABLED (ComputeTimes /\ loc'.err = "AttributeError")

\* no workflow finish time, the later node first
C18_Witness ==
    /\ pc = "action"
    /\ loc.times = [finishedAt |-> None, nodes |-> <<3, 1>>]
    /\ loc.end_time = 3

(***************************************************************************)
(* Properties of get_artifact_list.                                        *)
(***************************************************************************)
\* All artifacts of a status response with their node, in node order then
\* artifact order.
RECURSIVE AllOf(_)
AllOf(nodes) ==
    IF nodes = <<>> THEN <<>>
    ELSE [i \in 1..Len(Head(nodes).artifacts) |->
             [node |-> Head(nodes).id, a |-> Head(nodes).artifacts[i]]]
         \o AllOf(Tail(nodes))

\* The three conditions of the filter.
IsOutput(w, a) ==
    /\ a.s3key # <<>> /\ Contains(w.name, a.s3key[1])
    /\ a.deleted # <<TRUE>>
    /\ a.artifactGC = <<>> \/ a.artifactGC = <<[strategy |-> <<"Never">>]>>

Expected(w) ==
    LET sel == SelectSeq(AllOf(w.nodes), LAMBDA e : IsOutput(w, e.a))
    IN  [i \in 1..Len(sel) |->
            Triple(sel[i].node, sel[i].a.name[1],
                   IF sel[i].a.name[1] = "main-logs" THEN MainLog
                   ELSE sel[i].a.path[1])]

\* Every artifact has a storage key, a name and a path, and a garbage
\* collection entry, when present, has its strategy.
WellFormed(w) ==
    /\ w.hasNodes
    /\ \A i \in 1..Len(AllOf(w.nodes)) :
          LET a == AllOf(w.nodes)[i].a IN
          /\ a.s3key # <<>> /\ a.name # <<>> /\ a.path # <<>>
          /\ a.artifactGC # <<[strategy |-> <<>>]>>

\* C7: whenever get_artifact_list returns, its list is exactly the artifacts
\* that meet the three conditions, in node order then artifact order, with
\* "main.log" as the path of "main-logs" and the reported path otherwise; on
\* a status tree whose artifacts have all their fields it does return.
C7_ExactlyTheOutputs ==
    fpc = "done" =>
        /\ WellFormed(wfl) => ~fres.raised
        /\ ~fres.raised => fres.list = Expected(wfl)

C7_Witness ==
    /\ fpc = "done"
    /\ ~fres.raised
    /\ Len(wfl.nodes) = 2
    /\ Len(fres.list) = 1
    /\ fres.list[1] = Triple("n2", "main-logs", MainLog)
    /\ Len(wfl.nodes[1].artifacts) = 1
    /\ wfl.nodes[1].artifacts[1].deleted = <<TRUE>>
    /\ wfl.nodes[2].artifacts[1].path = <<ReportedPath>>

\* C8: get_artifact_list never raises, whatever fields the artifacts of the
\* status tree lack.
C8_NeverRaises ==
    (fpc = "done" /\ wfl.hasNodes) => ~fres.raised

(***************************************************************************)
(* Properties of _recursive_artifact_reader.                               *)
(***************************************************************************)
DownloadsOf(url) ==
    SelectSeq(reqs, LAMBDA r : r.kind = "download" /\ r.url = url)

\* C9: a resolved file URL gets at most one streaming download GET, issued
\* after a probe of that URL whose connection is closed by then; the probe
\* and the download of a URL are never open together.
C9_OneDownloadAfterProbeClosed ==
    /\ \A i \in 1..Len(reqs) :
          reqs[i].kind = "download" =>
              /\ Len(DownloadsOf(reqs[i].url)) = 1
              /\ ~reqs[i].probeOpen
              /\ \E j \in 1..(i - 1) :
                    reqs[j].kind = "probe" /\ reqs[j].url = reqs[i].url
    /\ \A c \in conns :
          c.kind = "probe" => Conn(c.url, "download") \notin conns

C9_Witness ==
    /\ spc = "suspended"
    /\ Conn(Top.url, "download") \in conns
    /\ Conn(Top.url, "probe") \notin conns
    /\ Len(yielded) = 2
    /\ Len(DownloadsOf(Top.url)) = 1

\* The paths of the leaf files below node k, depth-first in anchor order,
\* each the path of k extended by the link names down to the leaf.
RECURSIVE Leaves(_, _, _), LeavesOfAll(_, _, _)
Leaves(t, k, path) ==
    IF t.kind[k] = "file" THEN <<[path |-> path, node |-> k]>>
    ELSE LeavesOfAll(t, Children(t, k), path)
LeavesOfAll(t, kids, path) ==
    IF kids = <<>> THEN <<>>
    ELSE Leaves(t, Head(kids), path \o <<"/", LinkNames[Head(kids)]>>)
         \o LeavesOfAll(t, Tail(kids), path)

YieldedLeaves ==
    [i \in 1..Len(yielded) |-> [path |-> yielded[i].path, node |-> NodeOf(yielded[i].url)]]

AllAnswered == \A i \in 1..Len(reqs) : reqs[i].status = 200

Stopped == spc \in {"done", "failed"}

\* C10: the resolution of a finite tree comes to an end, and when the server
\* has answered every request it has yielded exactly one pair per leaf file,
\* depth-first in anchor order, under the path extended by the link names.
C10_TerminatesWithTheLeaves ==
    /\ []((spc = "done" /\ AllAnswered) => YieldedLeaves = Leaves(server, 1, RootPath))
    /\ <>Stopped

\* the listing ["..", e2, e3/] whose e3/ lists [e4]
C10_Witness ==
    /\ spc = "done"
    /\ server.n = 4
    /\ server.kind = <<"dir", "file", "dir", "file">>
    /\ server.parent = <<0, 1, 1, 3>>
    /\ server.dotdot = <<TRUE, FALSE, FALSE, FALSE>>
    /\ server.slash
    /\ Listing(server, 1) = <<ParentLink, <<"e2">>, <<"e3", "/">>>>
    /\ [i \in 1..Len(yielded) |-> yielded[i].path]
          = <<RootPath \o <<"/", "e2">>, RootPath \o <<"/", "e3", "/", "e4">>>>

\* C11: a response with a non-2xx status, to the probe, to the download or
\* to the listing request, is the last request of the stream and leaves it
\* failed (or, for the probe, about to fail when its headers are read): no
\* request follows, and the body is not taken for a directory page.
C11_NonSuccessAborts ==
    \A i \in 1..Len(reqs) :
        reqs[i].status \notin 200..299 =>
            /\ i = Len(reqs)
            /\ \/ spc = "failed"
               \/ spc = "running" /\ Top.phase = "probing"

(***************************************************************************)
(* Properties of reconstruct_workflow.                                     *)
(***************************************************************************)
\* C12: for a status response that has both spec and the stored template
\* spec, reconstruct_workflow returns a document of kind "Workflow" whose
\* spec has the stored template's value under every key of the stored
\* template, the original value under every other key of the original spec,
\* and no workflowTemplateRef.
C12_MergedDocument ==
    (rpc = "done" /\ reported.spec # <<>> /\ reported.stored # <<>>) =>
        /\ ~rdoc.raised
        /\ rdoc.doc # <<>>
        /\ rdoc.doc[1].kind = "Workflow"
        /\ LET spec == rdoc.doc[1].spec
               orig == reported.spec[1]
               tmpl == reported.stored[1] IN
           /\ DOMAIN spec = (DOMAIN orig \cup DOMAIN tmpl) \ {TemplateRef}
           /\ \A k \in DOMAIN spec :
                 spec[k] = IF k \in DOMAIN tmpl THEN tmpl[k] ELSE orig[k]

\* C13: the status response is left as the engine reported it.
C13_ResponseUnchanged ==
    rpc = "done" => response = reported

(***************************************************************************)
(* Properties of one ingestion run with its stream (SpecIngest)            *)
(***************************************************************************)
\* C19: the streamer issues a request only while the run waits in next() for
\* the pair the request belongs to, the run asks for the next pair only when
\* no download is open, and at every moment at most one download connection
\* and at most one temporary file are open.
C19_LazyAndSequential ==
    /\ [](Cardinality(Downloads) <= 1 /\ open_files.tmp <= 1)
    /\ [][/\ reqs' # reqs => pc = "next" /\ Len(yielded) = loc.nFiles
          /\ (pc = "files" /\ pc' = "next") => Downloads = {}]_vars

\* the second pair is being downloaded after the first was read to its end
C19_Witness ==
    /\ pc = "download"
    /\ Len(yielded) = 2
    /\ Len(loc.sizes) = 1
    /\ Downloads = {Conn(yielded[2].url, "download")}
    /\ open_files.tmp = 1

\* C20: whenever the processing of an artifact has been left (the loop is
\* about to ask for the next pair, has ended, or the run is in or past the
\* rollback), no download connection, no temporary file and no read handle
\* of the run is open.
C20_ReleasedOnEveryExit ==
    pc \in {"files", "params", "rollback", "raised"} =>
        /\ Downloads = {}
        /\ open_files.tmp = 0
        /\ open_files.rb = 0

(***************************************************************************)
(* Properties of concurrent runs (SpecRuns)                                *)
(***************************************************************************)
RecordsOf(r) == {id \in store.alive : store.by[id] = r}

\* C21: in every interleaving of the runs, every identifier in a run's ledger
\* was created by that run, a step that is not a step of run r leaves every
\* record of run r in the repository, and a run that has returned has all
\* the records of its ledger in the repository.
C21_RunsKeepApart ==
    /\ [](\A r \in Runs :
            /\ \A i \in 1..Len(Ledger(r)) : store.by[Ledger(r)[i].id] = r
            /\ runs[r].pc = "returned" =>
                  \A i \in 1..Len(Ledger(r)) : Ledger(r)[i].id \in store.alive)
    /\ [][\A r \in Runs : runs'[r] = runs[r] =>
             RecordsOf(r) \subseteq store'.alive]_vars

\* run 1 has returned and keeps its four records, run 2 has failed and has
\* deleted its records, which were created in between those of run 1
C21_Witness ==
    /\ runs[1].pc = "returned"
    /\ runs[2].pc = "raised"
    /\ Len(runs[1].created_ids) = 4
    /\ Len(runs[2].created_ids) >= 2
    /\ runs[2].k > Len(runs[2].created_ids)
    /\ RecordsOf(1) = {runs[1].created_ids[i].id : i \in 1..4}
    /\ RecordsOf(2) = {}
    /\ runs[1].created_ids[1].id < runs[2].created_ids[1].id
    /\ runs[2].created_ids[2].id < runs[1].created_ids[4].id

(***************************************************************************)
(* Properties of the yielded paths (SpecPaths)                             *)
(***************************************************************************)
\* C22: every yielded path is relative and begins with the node id of the
\* triple it was yielded for: its first component is the node id and not a
\* separator.
C22_PathRelativeUnderNode ==
    \A i \in 1..Len(yielded) :
       LET path == yielded[i].path IN
       /\ Head(path) # "/"
       /\ Head(path) = fres.list[1].node
       /\ Len(path) = 1 \/ path[2] = "/"
====
